---------------------------- MODULE Spec2Model ----------------------------
(***************************************************************************)
(* Model of the validated-fetch utility (src/queries/fetch.ts) and of the  *)
(* mutation helpers (src/queries/mutate.ts) of modern-react-template.      *)
(*                                                                         *)
(* One call is followed from its invocation to the settlement of its       *)
(* promise.  The HTTP client, the JSON parser and the schema library are   *)
(* the environment: the server's answer is chosen nondeterministically.    *)
(*                                                                         *)
(* Spec follows one call of any exported function (call); SpecConc runs    *)
(* several calls of fetchData at once (calls); SpecLive is Spec with the   *)
(* client and the body parser eventually answering; SpecTheme is the theme *)
(* toggle of src/components/ThemeToggleButton and its document (ui);       *)
(* SpecApp is the router, the 404 page and the error boundary of           *)
(* src/main.tsx (app); SpecButton is the Button component (button).        *)
(***************************************************************************)
EXTENDS Integers, Sequences, FiniteSets, TLC

VARIABLES call, calls, ui, app, button

vars == <<call, calls, ui, app, button>>

(***************************************************************************)
(* JavaScript values.  Every value is a tagged record, so that two values  *)
(* of different kinds are comparable (and different).                       *)
(***************************************************************************)
Undefined == [t |-> "undefined"]

Null == [t |-> "null"]

Num(n) == [t |-> "number", n |-> n]

Obj(r) == [t |-> "object", o |-> r]

Arr(s) == [t |-> "array", a |-> s]

(* The empty object literal {} *)
EmptyRecord == [k \in {} |-> Undefined]

(* A template literal: the sequence of its parts, numbers printed. *)
Range(s) == {s[i] : i \in DOMAIN s}

(***************************************************************************)
(* Identifiers are sequences of characters, so that the UUID regular       *)
(* expression is computed and not looked up.                                *)
(***************************************************************************)
IdLower ==
  <<"5","5","0","e","8","4","0","0","-","e","2","9","b","-","4","1","d","4","-","a","7","1","6","-","4","4","6","6","5","5","4","4","0","0","0","0">>

IdUpper ==
  <<"5","5","0","E","8","4","0","0","-","E","2","9","B","-","4","1","D","4","-","A","7","1","6","-","4","4","6","6","5","5","4","4","A","B","C","D">>

IdAbc ==
  <<"a","b","c">>

IdNonHex ==
  <<"5","5","0","e","8","4","0","0","-","e","2","9","b","-","4","1","d","4","-","a","7","1","6","-","4","4","6","6","5","5","4","4","0","0","0","g">>

IdShort ==
  <<"5","5","0","e","8","4","0","0","-","e","2","9","b","-","4","1","d","4","-","a","7","1","6","-","4","4","6","6","5","5","4","4","0","0","0">>

IdLong ==
  <<"5","5","0","e","8","4","0","0","-","e","2","9","b","-","4","1","d","4","-","a","7","1","6","-","4","4","6","6","5","5","4","4","0","0","0","0","0">>

IdNoHyphen ==
  <<"5","5","0","e","8","4","0","0","a","e","2","9","b","-","4","1","d","4","-","a","7","1","6","-","4","4","6","6","5","5","4","4","0","0","0","0">>

IdNewline ==
  <<"5","5","0","e","8","4","0","0","-","e","2","9","b","-","4","1","d","4","-","a","7","1","6","-","4","4","6","6","5","5","4","4","0","0","0","0","\n">>

IdEmpty == <<>>

(* The identifiers the callers of the model pass. *)
Ids ==
  {IdLower, IdUpper, IdAbc, IdNonHex, IdShort, IdLong, IdNoHyphen, IdNewline,
   IdEmpty}

LowerHex ==
  {"0","1","2","3","4","5","6","7","8","9","a","b","c","d","e","f"}

UpperHex == {"A","B","C","D","E","F"}

(* n copies of the atom [0-9a-f] *)
HexRun(n) == [i \in 1..n |-> "hex"]

(* /^[0-9a-f]{8}-[0-9a-f]{4}-[0-9a-f]{4}-[0-9a-f]{4}-[0-9a-f]{12}$/i as the
   sequence of its atoms; ^ and $ anchor it to the whole input. *)
UuidAtoms ==
  HexRun(8) \o <<"-">> \o HexRun(4) \o <<"-">> \o HexRun(4) \o <<"-">>
    \o HexRun(4) \o <<"-">> \o HexRun(12)

(* One atom against one character, under the i flag. *)
AtomMatches(atom, ch) ==
  IF atom = "hex" THEN ch \in LowerHex \cup UpperHex ELSE ch = atom

(* A bug: the $ anchor is missing, so a matching prefix is enough. *)
UuidRegexTestUnanchored(s) ==
  /\ Len(s) >= Len(UuidAtoms)
  /\ \A i \in DOMAIN UuidAtoms : AtomMatches(UuidAtoms[i], s[i])

(* regex.test(s) *)
UuidRegexTest(s) ==
  /\ Len(s) = Len(UuidAtoms)
  /\ \A i \in DOMAIN UuidAtoms : AtomMatches(UuidAtoms[i], s[i])


(***************************************************************************)
(* Thrown values.  cls is the class of the value (what instanceof sees);   *)
(* a value that is no Error instance has cls "string".  A message is the   *)
(* sequence of the parts of the (template) literal that built it.          *)
(***************************************************************************)
ErrorClasses ==
  {"Error", "TypeError", "SyntaxError", "DOMException", "FetchError", "ZodError"}

(* A bug: the class is compared with Error itself, subclasses are missed. *)
InstanceOfErrorExactly(e) == e.cls = "Error"

(* error instanceof Error *)
InstanceOfError(e) == e.cls \in ErrorClasses

(* new FetchError(message, status, data) *)
FetchError(message, status, data) ==
  [cls |-> "FetchError", name |-> "FetchError", message |-> message,
   status |-> status, data |-> data]

(* new Error(message) *)
PlainError(message) == [cls |-> "Error", name |-> "Error", message |-> message]

(* The error schema.parse throws; issues: the paths that failed. *)
ZodError(issues) ==
  [cls |-> "ZodError", name |-> "ZodError",
   message |-> <<"Invalid input">>, issues |-> issues]

(* What response.json() and JSON.stringify throw. *)
SyntaxError(message) ==
  [cls |-> "SyntaxError", name |-> "SyntaxError", message |-> message]

TypeError(message) ==
  [cls |-> "TypeError", name |-> "TypeError", message |-> message]

(* What fetch() rejects with when the request does not complete: the
   client's TypeError, the AbortError of an aborted signal, or the reason
   given to abort(reason), which need not be an Error. *)
FailedToFetch == TypeError(<<"Failed to fetch">>)

AbortError ==
  [cls |-> "DOMException", name |-> "AbortError",
   message |-> <<"The operation was aborted.">>]

AbortReason == [cls |-> "string", value |-> "timeout"]

NetworkFailures == {FailedToFetch, AbortError, AbortReason}

(* A request can be aborted only through the signal it was given. *)
FailuresOf(init) ==
  IF "signal" \in DOMAIN init THEN NetworkFailures ELSE {FailedToFetch}

(***************************************************************************)
(* JSON.  A body is its text; response.json() parses it or rejects with a  *)
(* SyntaxError.                                                             *)
(***************************************************************************)
BodyEmpty == ""

BodyHtml == "<html>Bad Gateway</html>"

BodyNull == "null"

BodyNotFound == "{\"message\":\"not found\"}"

BodyUser ==
  "{\"id\":\"550e8400-e29b-41d4-a716-446655440000\",\"name\":\"Jane\",\"email\":\"jane@x.com\",\"createdAt\":\"2024-01-01T00:00:00.000Z\"}"

BodyUserExtra ==
  "{\"id\":\"550e8400-e29b-41d4-a716-446655440000\",\"name\":\"Jane\",\"email\":\"jane@x.com\",\"createdAt\":\"2024-01-01T00:00:00.000Z\",\"role\":\"admin\"}"

BodyUserNoEmail ==
  "{\"id\":\"550e8400-e29b-41d4-a716-446655440000\",\"name\":\"Jane\",\"createdAt\":\"2024-01-01T00:00:00.000Z\"}"

BodyUserBadId ==
  "{\"id\":\"123\",\"name\":\"\",\"email\":\"jane@x.com\",\"createdAt\":\"2024-01-01T00:00:00.000Z\"}"

BodyPost ==
  "{\"id\":\"550e8400-e29b-41d4-a716-446655440000\",\"title\":\"Hello\",\"content\":\"\",\"authorId\":\"550e8400-e29b-41d4-a716-446655440000\",\"createdAt\":\"2024-01-01T00:00:00.000Z\",\"updatedAt\":\"2024-01-02T00:00:00.000Z\"}"

BodyPosts ==
  "[{\"id\":\"550e8400-e29b-41d4-a716-446655440000\",\"title\":\"Hello\",\"content\":\"\",\"authorId\":\"550e8400-e29b-41d4-a716-446655440000\",\"createdAt\":\"2024-01-01T00:00:00.000Z\",\"updatedAt\":\"2024-01-02T00:00:00.000Z\",\"draft\":\"yes\"}]"

(* The bodies the servers of the model answer with. *)
Bodies ==
  {BodyEmpty, BodyHtml, BodyNull, BodyNotFound, BodyUser, BodyUserExtra,
   BodyUserNoEmail, BodyUserBadId, BodyPost, BodyPosts}

UserValue ==
  [id |-> "550e8400-e29b-41d4-a716-446655440000", name |-> "Jane",
   email |-> "jane@x.com", createdAt |-> "2024-01-01T00:00:00.000Z"]

PostValue ==
  [id |-> "550e8400-e29b-41d4-a716-446655440000", title |-> "Hello",
   content |-> "", authorId |-> "550e8400-e29b-41d4-a716-446655440000",
   createdAt |-> "2024-01-01T00:00:00.000Z",
   updatedAt |-> "2024-01-02T00:00:00.000Z"]

Parsed(v) == [ok |-> TRUE, value |-> v]

(* The parse of a body text: the value, or the SyntaxError. *)
JsonParse(text) ==
  CASE text = BodyEmpty ->
         [ok |-> FALSE, error |-> SyntaxError(<<"Unexpected end of JSON input">>)]
    [] text = BodyHtml ->
         [ok |-> FALSE,
          error |-> SyntaxError(<<"Unexpected token '<', \"<html>Bad \"... is not valid JSON">>)]
    [] text = BodyNull -> Parsed(Null)
    [] text = BodyNotFound -> Parsed(Obj([message |-> "not found"]))
    [] text = BodyUser -> Parsed(Obj(UserValue))
    [] text = BodyUserExtra -> Parsed(Obj([role |-> "admin"] @@ UserValue))
    [] text = BodyUserNoEmail ->
         Parsed(Obj([k \in DOMAIN UserValue \ {"email"} |-> UserValue[k]]))
    [] text = BodyUserBadId ->
         Parsed(Obj([UserValue EXCEPT !.id = "123", !.name = ""]))
    [] text = BodyPost -> Parsed(Obj(PostValue))
    [] text = BodyPosts -> Parsed(Arr(<<Obj([draft |-> "yes"] @@ PostValue)>>))

(***************************************************************************)
(* Schemas (zod).  An object schema is its shape: key -> format; z.object  *)
(* strips the keys the shape does not name.                                 *)
(***************************************************************************)
userSchema ==
  [t |-> "object",
   shape |-> [id |-> "uuid", name |-> "min1", email |-> "email",
              createdAt |-> "datetime"]]

postSchema ==
  [t |-> "object",
   shape |-> [id |-> "uuid", title |-> "min1", content |-> "string",
              authorId |-> "uuid", createdAt |-> "datetime",
              updatedAt |-> "datetime"]]

(* z.array(element) *)
ArrayOf(element) == [t |-> "array", element |-> element]

(* The strings of the model that pass z.uuid(), z.email(), z.iso.datetime() *)
ZodUuids == {"550e8400-e29b-41d4-a716-446655440000"}

ZodEmails == {"jane@x.com", "john@example.com"}

ZodDatetimes == {"2024-01-01T00:00:00.000Z", "2024-01-02T00:00:00.000Z"}

FormatOk(format, v) ==
  CASE format = "uuid" -> v \in ZodUuids
    [] format = "min1" -> v # ""
    [] format = "string" -> TRUE
    [] format = "email" -> v \in ZodEmails
    [] format = "datetime" -> v \in ZodDatetimes

Issue(path) == [code |-> "invalid", path |-> path]

(* z.object(shape).safeParse(value), the issues reported under path *)
ObjectSafeParse(shape, value, path) ==
  IF value.t # "object"
  THEN [ok |-> FALSE, issues |-> {Issue(path)}]
  ELSE LET bad == {k \in DOMAIN shape :
                     \/ k \notin DOMAIN value.o
                     \/ ~FormatOk(shape[k], value.o[k])}
       IN  IF bad = {}
           THEN [ok |-> TRUE, value |-> Obj([k \in DOMAIN shape |-> value.o[k]])]
           ELSE [ok |-> FALSE, issues |-> {Issue(path \o <<k>>) : k \in bad}]

(* schema.safeParse(value) *)
SchemaSafeParse(schema, value) ==
  IF schema.t = "object"
  THEN ObjectSafeParse(schema.shape, value, <<>>)
  ELSE IF value.t # "array"
       THEN [ok |-> FALSE, issues |-> {Issue(<<>>)}]
       ELSE LET rs == [i \in DOMAIN value.a |->
                         ObjectSafeParse(schema.element.shape, value.a[i],
                                         <<ToString(i - 1)>>)]
            IN  IF \A i \in DOMAIN rs : rs[i].ok
                THEN [ok |-> TRUE, value |-> Arr([i \in DOMAIN rs |-> rs[i].value])]
                ELSE [ok |-> FALSE,
                      issues |-> UNION {rs[i].issues : i \in {j \in DOMAIN rs : ~rs[j].ok}}]

(***************************************************************************)
(* JSON.stringify of the data the callers pass: flat objects of strings,   *)
(* members in the order the caller wrote them, or an object that refers to *)
(* itself, which JSON.stringify refuses.                                    *)
(***************************************************************************)
Circular == [self |-> "[Circular]"]

MemberOrder == <<"title", "content", "name", "email">>

Quoted(str) == "\"" \o str \o "\""

RECURSIVE Members(_, _, _)
Members(data, keys, first) ==
  IF keys = <<>>
  THEN ""
  ELSE IF Head(keys) \in DOMAIN data
       THEN (IF first THEN "" ELSE ",")
              \o Quoted(Head(keys)) \o ":" \o Quoted(data[Head(keys)])
              \o Members(data, Tail(keys), FALSE)
       ELSE Members(data, Tail(keys), first)

JsonStringify(data) ==
  IF data = Circular
  THEN [ok |-> FALSE,
        error |-> TypeError(<<"Converting circular structure to JSON">>)]
  ELSE [ok |-> TRUE, text |-> "{" \o Members(data, MemberOrder, TRUE) \o "}"]

(***************************************************************************)
(* fetchData                                                                *)
(***************************************************************************)
(* options || {} *)
OptionsOrEmpty(options) == IF options = Undefined THEN EmptyRecord ELSE options

(* const { schema, ...fetchOptions } = options || {}: the schema *)
SchemaOf(options) ==
  IF "schema" \in DOMAIN OptionsOrEmpty(options)
  THEN OptionsOrEmpty(options).schema
  ELSE Undefined

(* A bug: the schema is left among the options spread into the request. *)
FetchOptionsOfKeepingSchema(options) == OptionsOrEmpty(options)

(* A bug: the signal is taken out of the options with the schema. *)
FetchOptionsOfWithoutSignal(options) ==
  [k \in DOMAIN OptionsOrEmpty(options) \ {"schema", "signal"} |->
     OptionsOrEmpty(options)[k]]

(* const { schema, ...fetchOptions } = options || {}: the rest *)
FetchOptionsOf(options) ==
  [k \in DOMAIN OptionsOrEmpty(options) \ {"schema"} |-> OptionsOrEmpty(options)[k]]

(* A bug: the spread comes first, so the default wins the collision. *)
MergedHeadersDefaultWins(fetchOptions) ==
  IF "headers" \in DOMAIN fetchOptions
  THEN ("Content-Type" :> "application/json") @@ fetchOptions.headers
  ELSE ("Content-Type" :> "application/json")

(* { 'Content-Type': 'application/json', ...fetchOptions.headers } *)
MergedHeaders(fetchOptions) ==
  IF "headers" \in DOMAIN fetchOptions
  THEN fetchOptions.headers @@ ("Content-Type" :> "application/json")
  ELSE ("Content-Type" :> "application/json")

(* { ...fetchOptions, headers: {...} } *)
RequestInit(fetchOptions) ==
  ("headers" :> MergedHeaders(fetchOptions)) @@ fetchOptions

(* What fetch(url, init) is called with. *)
Request(url, options) ==
  [url |-> url, init |-> RequestInit(FetchOptionsOf(options))]

(* A bug: the upper end of the success range is off by one. *)
ResponseOkUpTo300(status) == status >= 200 /\ status <= 300

(* response.ok *)
ResponseOk(status) == status >= 200 /\ status <= 299

(* What the rejection of fetch() leaves in place of a response. *)
Failed(failure) == [failure |-> failure]

(* A bug: the body of the failed response is never read. *)
ErrorDataNeverRead(body) == Null

(* await response.json().catch(() => null) *)
ErrorData(body) ==
  LET parsed == JsonParse(body) IN IF parsed.ok THEN parsed.value ELSE Null

(* A bug: the status is left out of the error. *)
HttpErrorWithoutStatus(status, errorData) ==
  FetchError(<<"HTTP error! status: ", ToString(status)>>, Undefined, errorData)

(* new FetchError(`HTTP error! status: ${response.status}`, response.status, errorData) *)
HttpError(status, errorData) ==
  FetchError(<<"HTTP error! status: ", ToString(status)>>, Num(status), errorData)

Return(v) == [kind |-> "return", v |-> v]

Throw(e) == [kind |-> "throw", v |-> e]

(* A bug: response.json() has no .catch, its rejection leaves the try block. *)
ErrorBodyResultWithoutCatch(status, body) ==
  LET parsed == JsonParse(body)
  IN  IF parsed.ok THEN Throw(HttpError(status, parsed.value)) ELSE Throw(parsed.error)

(* The try block from `if (!response.ok)` to the throw of the HTTP error. *)
ErrorBodyResult(status, body) == Throw(HttpError(status, ErrorData(body)))

(* A bug: only a validated value is returned. *)
ValidatedOrNothing(schema, data) ==
  IF schema # Undefined
  THEN LET r == SchemaSafeParse(schema, data)
       IN  IF r.ok THEN Return(r.value) ELSE Throw(ZodError(r.issues))
  ELSE Return(Undefined)

(* A bug: the body is validated, and the unvalidated body is returned. *)
ValidatedButRawReturned(schema, data) ==
  IF schema # Undefined
  THEN LET r == SchemaSafeParse(schema, data)
       IN  IF r.ok THEN Return(data) ELSE Throw(ZodError(r.issues))
  ELSE Return(data)

(* if (schema) { return schema.parse(data) } return data *)
Validated(schema, data) ==
  IF schema # Undefined
  THEN LET r == SchemaSafeParse(schema, data)
       IN  IF r.ok THEN Return(r.value) ELSE Throw(ZodError(r.issues))
  ELSE Return(data)

(* The try block from `const data = await response.json()` on. *)
BodyResult(schema, body) ==
  LET parsed == JsonParse(body)
  IN  IF parsed.ok THEN Validated(schema, parsed.value) ELSE Throw(parsed.error)

(* A bug: the catch block has no branch for FetchError, so the HTTP error
   is wrapped again as if the request had not completed. *)
CatchBlockWithoutFetchErrorBranch(error) ==
  IF error.cls = "ZodError"
  THEN FetchError(<<"Response validation failed">>, Undefined, error)
  ELSE FetchError(IF InstanceOfError(error)
                    THEN error.message ELSE <<"Unknown error">>,
                  Undefined, Undefined)

(* A bug: the catch block has no branch for ZodError. *)
CatchBlockWithoutZodBranch(error) ==
  IF error.cls = "FetchError"
  THEN error
  ELSE FetchError(IF InstanceOfError(error)
                    THEN error.message ELSE <<"Unknown error">>,
                  Undefined, Undefined)

(* The catch block: what it throws for the error it caught. *)
CatchBlock(error) ==
  IF error.cls = "FetchError"
  THEN error
  ELSE IF error.cls = "ZodError"
       THEN FetchError(<<"Response validation failed">>, Undefined, error)
       ELSE FetchError(IF InstanceOfError(error)
                         THEN error.message ELSE <<"Unknown error">>,
                       Undefined, Undefined)

(* A bug: the catch block swallows the error and the call returns null. *)
TryCatchSwallowing(result) ==
  IF result.kind = "throw" THEN Return(Null) ELSE result

(* try { ... } catch (error) { ... } around a result of the try block *)
TryCatch(result) ==
  IF result.kind = "throw" THEN Throw(CatchBlock(result.v)) ELSE result

(***************************************************************************)
(* The call: where it stands (pc), the exported function the caller        *)
(* invoked (fn) with its arguments (args), fetchData's own parameters, the *)
(* requests handed to fetch (sent), what fetch answered (response), the    *)
(* settlements of fetchData's own promise (returned) and those of the      *)
(* promise the caller holds (settled).                                      *)
(***************************************************************************)
NoResponse == [t |-> "none"]

Idle ==
  [pc |-> "idle", fn |-> "none", args |-> EmptyRecord, url |-> <<>>,
   options |-> Undefined, sent |-> <<>>, response |-> NoResponse,
   returned |-> <<>>, settled |-> <<>>]

Invoked(fn, args) == [Idle EXCEPT !.fn = fn, !.args = args]

(* deleteResource awaits fetchData and returns nothing; the other helpers
   return fetchData's promise. *)
HelperResult(fn, result) ==
  IF result.kind = "return" /\ fn \in {"deleteResource", "deletePost"}
  THEN Return(Undefined)
  ELSE result

(* The promise the caller holds settles. *)
Settle(c, result) ==
  [c EXCEPT !.pc = IF result.kind = "return" THEN "resolved" ELSE "rejected",
            !.settled = Append(@, HelperResult(c.fn, result))]

(* A bug: a failed request is sent once more before the call gives up. *)
FetchDataSettlesAfterRetry(c, result) ==
  IF result.kind = "throw"
  THEN Settle([c EXCEPT !.returned = Append(@, result),
                        !.sent = Append(@, c.sent[Len(c.sent)])], result)
  ELSE Settle([c EXCEPT !.returned = Append(@, result)], result)

(* fetchData's promise settles, and with it the promise of the helper that
   returned or awaited it. *)
FetchDataSettles(c, result) ==
  Settle([c EXCEPT !.returned = Append(@, result)], result)

(* fetchData(url, options) up to `await fetch(...)` *)
EnterFetchData(c, url, options) ==
  [c EXCEPT !.pc = "fetch", !.url = url, !.options = options,
            !.sent = Append(@, Request(url, options))]

(* fetchData(url, { method, body: JSON.stringify(data) [, schema] }) *)
SendJson(c, url, method, data, extra) ==
  LET body == JsonStringify(data)
  IN  IF body.ok
      THEN EnterFetchData(c, url, [method |-> method, body |-> body.text] @@ extra)
      ELSE Settle(c, Throw(body.error))

(* A bug: the status is not looked at before the body is parsed. *)
RespondedWithoutStatusCheck(c, status, body) ==
  [c EXCEPT !.response = [status |-> status, body |-> body], !.pc = "body"]

(* `const response = await fetch(...)` resolved: `if (!response.ok)` decides
   which response.json() the call awaits next. *)
Responded(c, status, body) ==
  [c EXCEPT !.response = [status |-> status, body |-> body],
            !.pc = IF ResponseOk(status) THEN "body" ELSE "errorBody"]

(* `await fetch(...)` rejected: the failure is caught and thrown again. *)
Rejected(c, failure) ==
  FetchDataSettles([c EXCEPT !.response = Failed(failure)], TryCatch(Throw(failure)))

(* A bug: the call is left pending once the body of a non-success response
   is read. *)
AfterErrorBodyNeverSettling(c) == c

(* The rest of fetchData once the body of a non-success response is read. *)
AfterErrorBody(c) ==
  FetchDataSettles(c, TryCatch(ErrorBodyResult(c.response.status, c.response.body)))

(* The rest of fetchData once the body of a success response is read. *)
AfterBody(c) ==
  FetchDataSettles(c, TryCatch(BodyResult(SchemaOf(c.options), c.response.body)))

(***************************************************************************)
(* The example query functions and the mutation helpers, each from its     *)
(* first statement (after the schemas' import, where it has one) to its    *)
(* call of fetchData or to its throw.                                       *)
(***************************************************************************)
(* !data.name, !data.email *)
Falsy(data, key) == key \notin DOMAIN data \/ data[key] = ""

FetchUserByIdBody(c) ==
  IF ~UuidRegexTest(c.args.userId)
  THEN Settle(c, Throw(FetchError(<<"Invalid user ID format">>, Undefined, Undefined)))
  ELSE EnterFetchData(c, <<"/api/users/">> \o c.args.userId, [schema |-> userSchema])

FetchPostsBody(c) ==
  EnterFetchData(c, <<"/api/posts">>, [schema |-> ArrayOf(postSchema)])

CreateResourceBody(c) == SendJson(c, c.args.url, "POST", c.args.data, EmptyRecord)

UpdateResourceBody(c) == SendJson(c, c.args.url, "PUT", c.args.data, EmptyRecord)

(* A bug: the partial update is sent with the verb of the full update. *)
PatchResourceBodyAsPut(c) == SendJson(c, c.args.url, "PUT", c.args.data, EmptyRecord)

PatchResourceBody(c) == SendJson(c, c.args.url, "PATCH", c.args.data, EmptyRecord)

DeleteResourceBody(c, url) == EnterFetchData(c, url, [method |-> "DELETE"])

CreatePostBody(c) ==
  SendJson(c, <<"/api/posts">>, "POST", c.args.data, [schema |-> postSchema])

(* A bug: the data is checked before the identifier. *)
UpdateUserBodyDataFirst(c) ==
  IF Falsy(c.args.data, "name") \/ Falsy(c.args.data, "email")
  THEN Settle(c, Throw(PlainError(<<"Name and email are required">>)))
  ELSE IF ~UuidRegexTest(c.args.userId)
       THEN Settle(c, Throw(PlainError(<<"Invalid user ID format">>)))
       ELSE SendJson(c, <<"/api/users/">> \o c.args.userId, "PUT", c.args.data,
                     [schema |-> userSchema])

UpdateUserBody(c) ==
  IF ~UuidRegexTest(c.args.userId)
  THEN Settle(c, Throw(PlainError(<<"Invalid user ID format">>)))
  ELSE IF Falsy(c.args.data, "name") \/ Falsy(c.args.data, "email")
       THEN Settle(c, Throw(PlainError(<<"Name and email are required">>)))
       ELSE SendJson(c, <<"/api/users/">> \o c.args.userId, "PUT", c.args.data,
                     [schema |-> userSchema])

DeletePostBody(c) ==
  IF ~UuidRegexTest(c.args.postId)
  THEN Settle(c, Throw(PlainError(<<"Invalid post ID format">>)))
  ELSE DeleteResourceBody(c, <<"/api/posts/">> \o c.args.postId)

(* The functions that start with `await import('../schemas/api')` *)
AfterImport(c) ==
  CASE c.fn = "fetchUserById" -> FetchUserByIdBody(c)
    [] c.fn = "fetchPosts" -> FetchPostsBody(c)
    [] c.fn = "createPost" -> CreatePostBody(c)
    [] c.fn = "updateUser" -> UpdateUserBody(c)

(***************************************************************************)
(* ThemeToggleButton.  The document carries the class 'theme-dark' on      *)
(* <html> and on <body>, or not; the mounted button shows the theme of its *)
(* last render (isDark) and the 'themechange' event tells it to render     *)
(* again (stale).  clicks and start are history: the clicks so far and the *)
(* classes the document started with.                                       *)
(***************************************************************************)
MaxClicks == 8

UiAt(html, body) ==
  [html |-> html, body |-> body, mounted |-> FALSE, isDark |-> FALSE,
   stale |-> FALSE, clicks |-> 0, start |-> [html |-> html, body |-> body]]

(* getCurrentThemeDark() *)
getCurrentThemeDark(u) == u.html \/ u.body

(* classList.toggle('theme-dark', force): the class is there iff force *)
ClassListToggle(present, force) == force

(* A bug: the negation is missing. *)
NextDarkNotNegated(u) == u.html \/ u.body

(* const next = !(root.classList.contains(...) || body.classList.contains(...)) *)
NextDark(u) == ~(u.html \/ u.body)

(* A bug: only <html> is given the class. *)
handleToggleThemeRootOnly(u) ==
  [u EXCEPT !.html = ClassListToggle(@, NextDark(u)),
            !.stale = u.mounted,
            !.clicks = @ + 1]

(* handleToggleTheme: both class lists are set, then the event is
   dispatched to the subscribed component. *)
handleToggleTheme(u) ==
  [u EXCEPT !.html = ClassListToggle(@, NextDark(u)),
            !.body = ClassListToggle(@, NextDark(u)),
            !.stale = u.mounted,
            !.clicks = @ + 1]

(* A render of the button: useSyncExternalStore reads the snapshot. *)
Rendered(u) == [u EXCEPT !.isDark = getCurrentThemeDark(u), !.stale = FALSE]

(* aria-pressed={isDark} *)
AriaPressed(u) == u.isDark

(* aria-label={isDark ? 'Switch to light mode' : 'Switch to dark mode'} *)
AriaLabel(u) == IF u.isDark THEN "Switch to light mode" ELSE "Switch to dark mode"

(* The button's text, without its emoji. *)
ButtonText(u) == IF u.isDark THEN "Dark" ELSE "Light"

(***************************************************************************)
(* The application in the browser.  A location is the sequence of the      *)
(* segments of its path ('/' is the empty sequence).  The build mode fixes *)
(* the base the bundle is deployed under and the router's basepath; a      *)
(* location outside the deployment base shows a document of the host that  *)
(* is not the application.  tryAgain, resets, reloads and arrivedBy are    *)
(* history.                                                                  *)
(***************************************************************************)
Modes == {"development", "production"}

(* base: mode === 'production' ? '/modern-react-template/app/' : '/' *)
ViteBase(mode) ==
  IF mode = "production" THEN <<"modern-react-template", "app">> ELSE <<>>

(* basepath: import.meta.env.MODE === 'production' ? '/modern-react-template/app' : '/' *)
Basepath(mode) ==
  IF mode = "production" THEN <<"modern-react-template", "app">> ELSE <<>>

IsUnder(base, path) ==
  /\ Len(path) >= Len(base)
  /\ SubSeq(path, 1, Len(base)) = base

StripBase(base, path) == SubSeq(path, Len(base) + 1, Len(path))

(* The route tree: indexRoute (path '/') and notFoundRoute (path '*'). *)
MatchRoute(routePath) == IF routePath = <<>> THEN "index" ELSE "splat"

(* What the router matches for a location below its basepath: the route
   of the rest of the path. *)
RouteOf(mode, path) == MatchRoute(StripBase(Basepath(mode), path))

(* A bug: the routes that are not the index render the bare outlet. *)
ComponentOfIndexOnly(match) == IF match = "index" THEN "HomePage" ELSE "none"

(* component: HomePage; component: NotFoundPageAdapter; notFoundComponent
   and defaultNotFoundComponent: NotFoundPageAdapter, which renders
   NotFoundPage. *)
ComponentOf(match) ==
  CASE match = "index" -> "HomePage"
    [] match = "splat" -> "NotFoundPage"
    [] match = "none" -> "NotFoundPage"

(* <a href="/">Go back home</a> *)
GoBackHomeHref == <<>>

(* globalThis.location.href = '/' *)
GoToHomePageHref == <<>>

(* The document a location shows: the application below the base it is
   deployed under, whatever else the host has there elsewhere. *)
DocumentAt(mode, path) ==
  IF IsUnder(ViteBase(mode), path) THEN "app" ELSE "other"

AppAt(mode, path, document, match, arrivedBy) ==
  [mode |-> mode, pathname |-> path, document |-> document, match |-> match,
   screen |-> IF document = "app" THEN ComponentOf(match) ELSE "none",
   error |-> FALSE, reloading |-> FALSE, arrivedBy |-> arrivedBy,
   tryAgain |-> 0, resets |-> 0, reloads |-> 0]

AppAtHome == AppAt("development", <<>>, "app", "index", "url")

(* The page loads at a location; the history is kept. *)
Load(a, path, arrivedBy) ==
  [AppAt(a.mode, path, DocumentAt(a.mode, path),
         IF DocumentAt(a.mode, path) = "app" THEN RouteOf(a.mode, path) ELSE "none",
         arrivedBy)
     EXCEPT !.tryAgain = a.tryAgain, !.resets = a.resets, !.reloads = a.reloads]

(* onReset={() => globalThis.location.reload()} *)
OnReset(a) == [a EXCEPT !.reloads = @ + 1, !.reloading = TRUE]

(* resetErrorBoundary() of react-error-boundary: with an error in its
   state the boundary calls onReset and renders its children again. *)
ResetErrorBoundary(a) ==
  IF a.error
  THEN [OnReset([a EXCEPT !.resets = @ + 1])
          EXCEPT !.error = FALSE, !.screen = ComponentOf(a.match)]
  ELSE [a EXCEPT !.resets = @ + 1]

(* A bug: the commented-out hard reload is made in place of the reset. *)
handleReloadHardOnly(a) == [a EXCEPT !.reloads = @ + 1, !.reloading = TRUE]

(* handleReload: resetErrorBoundary() *)
handleReload(a) == ResetErrorBoundary(a)

(***************************************************************************)
(* Button.  A rendered Button has its props (disabled; an onClick handler  *)
(* or none).  clicks is the history of the clicks on the element, each     *)
(* with the props of that moment; calls is the history of the events       *)
(* onClick was called with, prevented of those preventDefault was called   *)
(* on.                                                                       *)
(***************************************************************************)
MaxEvents == 4

NoButton ==
  [rendered |-> FALSE, disabled |-> FALSE, hasOnClick |-> FALSE,
   clicks |-> <<>>, calls |-> <<>>, prevented |-> <<>>]

(* A bug: the handler does not look at `disabled`. *)
handleClickIgnoringDisabled(b, event) ==
  IF b.hasOnClick THEN [b EXCEPT !.calls = Append(@, event)] ELSE b

(* handleClick: if (disabled) { event.preventDefault(); return; }
   onClick?.(event); *)
handleClick(b, event) ==
  IF b.disabled
  THEN [b EXCEPT !.prevented = Append(@, event)]
  ELSE IF b.hasOnClick THEN [b EXCEPT !.calls = Append(@, event)] ELSE b

(* A click on the element, the event numbered by its place in the history. *)
Clicked(b) ==
  [b EXCEPT !.clicks = Append(@, [event |-> Len(b.clicks) + 1,
                                  disabled |-> b.disabled,
                                  hasOnClick |-> b.hasOnClick])]

(***************************************************************************)
(* Several calls of fetchData at once.  fetchData has no state outside its *)
(* parameters and locals, so each call is a call record of its own; the    *)
(* event loop runs one continuation of one call at a time.                  *)
(***************************************************************************)
NumCalls == 2

CallIds == 1..NumCalls

NoCalls == [c \in CallIds |-> Idle]

(* A bug: a call finds a request for its url in flight and sends none. *)
StartDeduplicated(cs, c, url, options) ==
  IF \E d \in CallIds \ {c} : cs[d].pc = "fetch" /\ cs[d].url = url
  THEN [cs EXCEPT ![c] =
          [Invoked("fetchData", [url |-> url, options |-> options])
             EXCEPT !.pc = "fetch", !.url = url, !.options = options]]
  ELSE [cs EXCEPT ![c] =
          EnterFetchData(Invoked("fetchData", [url |-> url, options |-> options]),
                         url, options)]

(* Call c of fetchData(url, options) runs up to its `await fetch(...)`. *)
Start(cs, c, url, options) ==
  [cs EXCEPT ![c] =
     EnterFetchData(Invoked("fetchData", [url |-> url, options |-> options]),
                    url, options)]

(* A bug: the calls for one url share one response, whose body can be read
   once. *)
ReadBodyOfSharedResponse(cs, c) ==
  IF \E d \in CallIds \ {c} :
       /\ cs[d].url = cs[c].url
       /\ cs[d].returned # <<>>
       /\ "status" \in DOMAIN cs[d].response
  THEN [cs EXCEPT ![c] =
          FetchDataSettles(cs[c], TryCatch(Throw(TypeError(<<"body stream already read">>))))]
  ELSE [cs EXCEPT ![c] = AfterBody(cs[c])]

(* Call c resumes after `await response.json()` of its success response. *)
ReadBody(cs, c) == [cs EXCEPT ![c] = AfterBody(cs[c])]

(***************************************************************************)
(* What the callers of the model pass, and what the servers answer.        *)
(***************************************************************************)
Urls == {<<"/api/user/123">>, <<"https://api.example.com/items">>}

ResourceUrls == {<<"/api/users">>, <<"/api/users/123">>}

OptionsSet ==
  {Undefined,
   EmptyRecord,
   [schema |-> userSchema],
   [schema |-> postSchema],
   [schema |-> ArrayOf(postSchema)],
   [schema |-> userSchema, headers |-> [Authorization |-> "Bearer token"]],
   [headers |-> ("Content-Type" :> "text/plain")],
   [headers |-> ("content-type" :> "text/plain")],
   [headers |-> [Accept |-> "text/html", Authorization |-> "Bearer token"]],
   [method |-> "POST", body |-> "{\"name\":\"John Doe\"}", schema |-> userSchema],
   [signal |-> [aborted |-> FALSE]]}

PostData == {[title |-> "Hello World", content |-> "This is my first post"]}

UserData ==
  {[name |-> "Jane Smith", email |-> "jane.smith@example.com"],
   [name |-> "", email |-> "jane.smith@example.com"],
   [name |-> "Jane Smith"]}

ResourceData ==
  {[name |-> "John Doe", email |-> "john@example.com"],
   [email |-> "newemail@example.com"],
   Circular}

Statuses == {200, 201, 204, 299, 300, 404, 500}

(***************************************************************************)
(* The actions: the caller invokes an exported function; the environment   *)
(* completes what the call awaits.                                          *)
(***************************************************************************)
Init ==
  /\ call = Idle
  /\ calls = NoCalls
  /\ ui = UiAt(FALSE, FALSE)
  /\ app = AppAtHome
  /\ button = NoButton

CallFetchData ==
  /\ call.pc = "idle"
  /\ \E url \in Urls, options \in OptionsSet :
       call' = EnterFetchData(Invoked("fetchData", [url |-> url, options |-> options]),
                              url, options)
  /\ UNCHANGED <<calls, ui, app, button>>

CallFetchUserById ==
  /\ call.pc = "idle"
  /\ \E userId \in Ids :
       call' = [Invoked("fetchUserById", [userId |-> userId]) EXCEPT !.pc = "import"]
  /\ UNCHANGED <<calls, ui, app, button>>

CallFetchPosts ==
  /\ call.pc = "idle"
  /\ call' = [Invoked("fetchPosts", EmptyRecord) EXCEPT !.pc = "import"]
  /\ UNCHANGED <<calls, ui, app, button>>

CallCreateResource ==
  /\ call.pc = "idle"
  /\ \E url \in ResourceUrls, data \in ResourceData :
       call' = CreateResourceBody(Invoked("createResource", [url |-> url, data |-> data]))
  /\ UNCHANGED <<calls, ui, app, button>>

CallUpdateResource ==
  /\ call.pc = "idle"
  /\ \E url \in ResourceUrls, data \in ResourceData :
       call' = UpdateResourceBody(Invoked("updateResource", [url |-> url, data |-> data]))
  /\ UNCHANGED <<calls, ui, app, button>>

CallPatchResource ==
  /\ call.pc = "idle"
  /\ \E url \in ResourceUrls, data \in ResourceData :
       call' = PatchResourceBody(Invoked("patchResource", [url |-> url, data |-> data]))
  /\ UNCHANGED <<calls, ui, app, button>>

CallDeleteResource ==
  /\ call.pc = "idle"
  /\ \E url \in ResourceUrls :
       call' = DeleteResourceBody(Invoked("deleteResource", [url |-> url]), url)
  /\ UNCHANGED <<calls, ui, app, button>>

CallCreatePost ==
  /\ call.pc = "idle"
  /\ \E data \in PostData :
       call' = [Invoked("createPost", [data |-> data]) EXCEPT !.pc = "import"]
  /\ UNCHANGED <<calls, ui, app, button>>

CallUpdateUser ==
  /\ call.pc = "idle"
  /\ \E userId \in Ids, data \in UserData :
       call' = [Invoked("updateUser", [userId |-> userId, data |-> data])
                  EXCEPT !.pc = "import"]
  /\ UNCHANGED <<calls, ui, app, button>>

CallDeletePost ==
  /\ call.pc = "idle"
  /\ \E postId \in Ids :
       call' = DeletePostBody(Invoked("deletePost", [postId |-> postId]))
  /\ UNCHANGED <<calls, ui, app, button>>

(* The dynamic import of the schemas resolves. *)
SchemasImported ==
  /\ call.pc = "import"
  /\ call' = AfterImport(call)
  /\ UNCHANGED <<calls, ui, app, button>>

(* fetch() resolves with a response: `if (!response.ok)` decides which
   response.json() the call awaits next. *)
FetchResolves ==
  /\ call.pc = "fetch"
  /\ \E status \in Statuses, body \in Bodies :
       call' = Responded(call, status, body)
  /\ UNCHANGED <<calls, ui, app, button>>

(* fetch() rejects: the request never completed. *)
FetchRejects ==
  /\ call.pc = "fetch"
  /\ \E failure \in FailuresOf(call.sent[Len(call.sent)].init) :
       call' = Rejected(call, failure)
  /\ UNCHANGED <<calls, ui, app, button>>

(* The body of a non-success response has been read: the HTTP error is
   thrown, caught and thrown again. *)
ErrorBodyRead ==
  /\ call.pc = "errorBody"
  /\ call' = AfterErrorBody(call)
  /\ UNCHANGED <<calls, ui, app, button>>

(* The body of a success response has been read. *)
BodyRead ==
  /\ call.pc = "body"
  /\ call' = AfterBody(call)
  /\ UNCHANGED <<calls, ui, app, button>>

(* The caller has its result; the next call may start. *)
Finish ==
  /\ call.pc \in {"resolved", "rejected"}
  /\ call' = Idle
  /\ UNCHANGED <<calls, ui, app, button>>

Next ==
  \/ CallFetchData
  \/ CallDeletePost
  \/ CallUpdateUser
  \/ CallCreatePost
  \/ CallDeleteResource
  \/ CallPatchResource
  \/ CallUpdateResource
  \/ CallCreateResource
  \/ CallFetchPosts
  \/ CallFetchUserById
  \/ SchemasImported
  \/ FetchResolves
  \/ FetchRejects
  \/ ErrorBodyRead
  \/ BodyRead
  \/ Finish

Spec == Init /\ [][Next]_vars

(***************************************************************************)
(* The HTTP client eventually answers or fails, and a body that is being   *)
(* read is eventually read: the promises fetchData awaits settle.           *)
(***************************************************************************)
SpecLive ==
  /\ Init
  /\ [][Next]_vars
  /\ WF_vars(FetchResolves \/ FetchRejects)
  /\ WF_vars(ErrorBodyRead)
  /\ WF_vars(BodyRead)

(***************************************************************************)
(* Concurrent calls of fetchData: the caller starts a call in a free slot, *)
(* the environment completes what some call awaits.                         *)
(***************************************************************************)
ConcOptions == {Undefined, [schema |-> userSchema]}

ConcStatuses == {200, 404}

ConcBodies == {BodyUser, BodyUserNoEmail, BodyHtml}

ConcCallFetchData(c) ==
  /\ calls[c].pc = "idle"
  /\ \E url \in Urls, options \in ConcOptions : calls' = Start(calls, c, url, options)
  /\ UNCHANGED <<call, ui, app, button>>

ConcFetchResolves(c) ==
  /\ calls[c].pc = "fetch"
  /\ \E status \in ConcStatuses, body \in ConcBodies :
       calls' = [calls EXCEPT ![c] = Responded(calls[c], status, body)]
  /\ UNCHANGED <<call, ui, app, button>>

ConcFetchRejects(c) ==
  /\ calls[c].pc = "fetch"
  /\ calls' = [calls EXCEPT ![c] = Rejected(calls[c], FailedToFetch)]
  /\ UNCHANGED <<call, ui, app, button>>

ConcErrorBodyRead(c) ==
  /\ calls[c].pc = "errorBody"
  /\ calls' = [calls EXCEPT ![c] = AfterErrorBody(calls[c])]
  /\ UNCHANGED <<call, ui, app, button>>

ConcBodyRead(c) ==
  /\ calls[c].pc = "body"
  /\ calls' = ReadBody(calls, c)
  /\ UNCHANGED <<call, ui, app, button>>

ConcFinish(c) ==
  /\ calls[c].pc \in {"resolved", "rejected"}
  /\ calls' = [calls EXCEPT ![c] = Idle]
  /\ UNCHANGED <<call, ui, app, button>>

NextConc ==
  \/ \E c \in CallIds : ConcCallFetchData(c)
  \/ \E c \in CallIds : ConcFetchResolves(c)
  \/ \E c \in CallIds : ConcFetchRejects(c)
  \/ \E c \in CallIds : ConcErrorBodyRead(c)
  \/ \E c \in CallIds : ConcBodyRead(c)
  \/ \E c \in CallIds : ConcFinish(c)

SpecConc == Init /\ [][NextConc]_vars

(***************************************************************************)
(* The theme toggle: the document starts with any classes; the button is   *)
(* mounted, clicked, rendered again after the event, unmounted.             *)
(***************************************************************************)
InitTheme ==
  /\ call = Idle
  /\ calls = NoCalls
  /\ \E html \in BOOLEAN, body \in BOOLEAN : ui = UiAt(html, body)
  /\ app = AppAtHome
  /\ button = NoButton

MountThemeToggleButton ==
  /\ ~ui.mounted
  /\ ui' = [Rendered(ui) EXCEPT !.mounted = TRUE]
  /\ UNCHANGED <<call, calls, app, button>>

UnmountThemeToggleButton ==
  /\ ui.mounted
  /\ ui' = [ui EXCEPT !.mounted = FALSE, !.isDark = FALSE, !.stale = FALSE]
  /\ UNCHANGED <<call, calls, app, button>>

ClickThemeToggleButton ==
  /\ ui.mounted
  /\ ui.clicks < MaxClicks
  /\ ui' = handleToggleTheme(ui)
  /\ UNCHANGED <<call, calls, app, button>>

(* The component renders again after the 'themechange' event. *)
ThemeChangeRendered ==
  /\ ui.mounted
  /\ ui.stale
  /\ ui' = Rendered(ui)
  /\ UNCHANGED <<call, calls, app, button>>

NextTheme ==
  \/ MountThemeToggleButton
  \/ UnmountThemeToggleButton
  \/ ClickThemeToggleButton
  \/ ThemeChangeRendered

SpecTheme == InitTheme /\ [][NextTheme]_vars

(***************************************************************************)
(* The application: the user opens locations, follows the links of the    *)
(* pages, a render may throw, and the error fallback's buttons are used.   *)
(***************************************************************************)
Paths ==
  {<<>>, <<"about">>, <<"modern-react-template">>,
   <<"modern-react-template", "app">>,
   <<"modern-react-template", "app", "about">>}

InitApp ==
  /\ call = Idle
  /\ calls = NoCalls
  /\ ui = UiAt(FALSE, FALSE)
  /\ button = NoButton
  /\ \E mode \in Modes :
       app = AppAt(mode, ViteBase(mode), "app", MatchRoute(<<>>), "url")

(* The user opens a location in the address bar. *)
OpenUrl ==
  /\ ~app.reloading
  /\ \E path \in Paths : app' = Load(app, path, "url")
  /\ UNCHANGED <<call, calls, ui, button>>

(* The user follows 'Go back home' on the 404 page: a plain anchor, so the
   browser loads its href. *)
FollowGoBackHome ==
  /\ app.screen = "NotFoundPage"
  /\ ~app.reloading
  /\ app' = Load(app, GoBackHomeHref, "goBackHome")
  /\ UNCHANGED <<call, calls, ui, button>>

(* A render of the application throws: the boundary shows ErrorFallback. *)
RenderThrows ==
  /\ app.document = "app"
  /\ ~app.error
  /\ app' = [app EXCEPT !.error = TRUE, !.screen = "ErrorFallback"]
  /\ UNCHANGED <<call, calls, ui, button>>

(* 'Try Again' is activated: Button's handleClick calls handleReload. *)
ClickTryAgain ==
  /\ app.screen = "ErrorFallback"
  /\ app.tryAgain < MaxClicks
  /\ app' = handleReload([app EXCEPT !.tryAgain = @ + 1])
  /\ UNCHANGED <<call, calls, ui, button>>

(* 'Go to Home page' of the fallback is activated. *)
ClickGoToHomePage ==
  /\ app.screen = "ErrorFallback"
  /\ ~app.reloading
  /\ app' = Load(app, GoToHomePageHref, "goToHomePage")
  /\ UNCHANGED <<call, calls, ui, button>>

(* The reload the boundary's onReset asked for takes place. *)
PageReloads ==
  /\ app.reloading
  /\ app' = Load(app, app.pathname, "reload")
  /\ UNCHANGED <<call, calls, ui, button>>

NextApp ==
  \/ OpenUrl
  \/ FollowGoBackHome
  \/ RenderThrows
  \/ ClickTryAgain
  \/ ClickGoToHomePage
  \/ PageReloads

SpecApp == InitApp /\ [][NextApp]_vars

(***************************************************************************)
(* A Button under its parent: the parent renders it with props, the user   *)
(* clicks it.  The browser sends no click to a disabled button; a click    *)
(* that reaches the handler all the same is modelled too.                   *)
(***************************************************************************)
RenderButton ==
  /\ \E disabled \in BOOLEAN, hasOnClick \in BOOLEAN :
       /\ ~button.rendered \/ button.disabled # disabled \/ button.hasOnClick # hasOnClick
       /\ button' = [button EXCEPT !.rendered = TRUE, !.disabled = disabled,
                                   !.hasOnClick = hasOnClick]
  /\ UNCHANGED <<call, calls, ui, app>>

(* A click reaches onClick={handleClick}. *)
ClickButton ==
  /\ button.rendered
  /\ Len(button.clicks) < MaxEvents
  /\ button' = handleClick(Clicked(button), Len(button.clicks) + 1)
  /\ UNCHANGED <<call, calls, ui, app>>

(* A click on a disabled button that the browser does not dispatch. *)
ClickSuppressed ==
  /\ button.rendered
  /\ button.disabled
  /\ Len(button.clicks) < MaxEvents
  /\ button' = Clicked(button)
  /\ UNCHANGED <<call, calls, ui, app>>

NextButton ==
  \/ RenderButton
  \/ ClickButton
  \/ ClickSuppressed

InitButton ==
  /\ call = Idle
  /\ calls = NoCalls
  /\ ui = UiAt(FALSE, FALSE)
  /\ app = AppAtHome
  /\ button = NoButton

SpecButton == InitButton /\ [][NextButton]_vars

(***************************************************************************)
(* The vocabulary of the properties.                                        *)
(***************************************************************************)
Settled == call.pc \in {"resolved", "rejected"}

(* The call reached fetchData. *)
EnteredFetchData == call.sent # <<>>

(* fetch() answered with a response. *)
HasResponse == "status" \in DOMAIN call.response

(* fetch() rejected. *)
HasFailure == "failure" \in DOMAIN call.response

(* The conventional 2xx range. *)
IsSuccessStatus(status) == status \in 200..299

SchemaSupplied == SchemaOf(call.options) # Undefined

BodyParses == JsonParse(call.response.body).ok

ParsedBody == JsonParse(call.response.body).value

(* What the schema says of the parsed body. *)
SchemaVerdict == SchemaSafeParse(SchemaOf(call.options), ParsedBody)

(* fetchData's promise settled exactly once. *)
FetchDataSettledOnce == Len(call.returned) = 1

FetchDataReturned == FetchDataSettledOnce /\ call.returned[1].kind = "return"

(* fetchData rejected with exactly one FetchError. *)
FetchDataThrewFetchError ==
  /\ FetchDataSettledOnce
  /\ call.returned[1].kind = "throw"
  /\ call.returned[1].v.cls = "FetchError"

(* The error fetchData rejected with. *)
FetchDataError == call.returned[1].v

(* data is the ZodError that reports exactly these issues. *)
IsZodDiagnostics(data, issues) ==
  /\ "issues" \in DOMAIN data
  /\ data.cls = "ZodError"
  /\ data.issues = issues

(***************************************************************************)
(* C1 (as stated): fetchData returns a value if and only if the status is  *)
(* a success status and (no schema was supplied or the body satisfies the  *)
(* schema); every other outcome is exactly one FetchError.                  *)
(***************************************************************************)
C1_ReturnsIffSuccessAndSchemaOk ==
  (EnteredFetchData /\ Settled) =>
    /\ FetchDataReturned <=>
         /\ HasResponse
         /\ IsSuccessStatus(call.response.status)
         /\ (~SchemaSupplied \/ (BodyParses /\ SchemaVerdict.ok))
    /\ FetchDataReturned \/ FetchDataThrewFetchError

(***************************************************************************)
(* C1 (amended): fetchData returns a value if and only if the status is a  *)
(* success status, the body parses as JSON and (no schema was supplied or  *)
(* the parsed body satisfies the schema); every other outcome is exactly   *)
(* one FetchError, and nothing is returned before the call settles.        *)
(***************************************************************************)
C1_ReturnsIffSuccessParsedAndSchemaOk ==
  /\ (EnteredFetchData /\ Settled) =>
       /\ FetchDataReturned <=>
            /\ HasResponse
            /\ IsSuccessStatus(call.response.status)
            /\ BodyParses
            /\ (~SchemaSupplied \/ SchemaVerdict.ok)
       /\ FetchDataReturned \/ FetchDataThrewFetchError
       /\ FetchDataReturned <=> call.pc = "resolved"
  /\ ~Settled => call.returned = <<>> /\ call.settled = <<>>

(* fetchData has returned the validated body of a success response. *)
C1_Witness ==
  /\ call.fn = "fetchData"
  /\ FetchDataReturned
  /\ SchemaSupplied
  /\ call.response.status = 201

(***************************************************************************)
(* C2: for a response whose status is outside 200..299, fetchData rejects  *)
(* with a FetchError whose status is that status and whose message embeds  *)
(* it, with or without a schema.                                            *)
(***************************************************************************)
C2_NonSuccessStatusInError ==
  (Settled /\ HasResponse /\ ~IsSuccessStatus(call.response.status)) =>
    /\ FetchDataThrewFetchError
    /\ FetchDataError.status = Num(call.response.status)
    /\ ToString(call.response.status) \in Range(FetchDataError.message)
    /\ call.pc = "rejected"

(* A 404 has been answered to a call that supplied a schema. *)
C2_Witness ==
  /\ Settled
  /\ HasResponse
  /\ call.response.status = 404
  /\ SchemaSupplied
  /\ FetchDataError.status = Num(404)

(***************************************************************************)
(* C3: a success status, a schema and a parsed body that does not satisfy  *)
(* it: fetchData rejects with a FetchError 'Response validation failed',   *)
(* without status, whose data is the validation error; nothing is          *)
(* returned.                                                                *)
(***************************************************************************)
C3_ValidationFailure ==
  (/\ Settled
   /\ HasResponse
   /\ IsSuccessStatus(call.response.status)
   /\ SchemaSupplied
   /\ BodyParses
   /\ ~SchemaVerdict.ok) =>
    /\ FetchDataThrewFetchError
    /\ FetchDataError.message = <<"Response validation failed">>
    /\ FetchDataError.status = Undefined
    /\ IsZodDiagnostics(FetchDataError.data, SchemaVerdict.issues)
    /\ call.pc = "rejected"

(* A user without email has been answered to a call with the user schema. *)
C3_Witness ==
  /\ Settled
  /\ HasResponse
  /\ call.response.status = 200
  /\ call.response.body = BodyUserNoEmail
  /\ SchemaOf(call.options) = userSchema
  /\ FetchDataThrewFetchError
  /\ FetchDataError.data.issues = {Issue(<<"email">>)}

(* What the failure says: the message of an Error, the text of a reason. *)
FailureText(failure) ==
  IF "message" \in DOMAIN failure THEN failure.message ELSE <<failure.value>>

(***************************************************************************)
(* C4 (as stated): when the request never completes, fetchData rejects     *)
(* with a FetchError whose message is the underlying failure's message and *)
(* whose status and data are absent.                                        *)
(***************************************************************************)
C4_TransportFailureKeepsMessage ==
  (Settled /\ HasFailure) =>
    /\ FetchDataThrewFetchError
    /\ FetchDataError.message = FailureText(call.response.failure)
    /\ FetchDataError.status = Undefined
    /\ FetchDataError.data = Undefined

(***************************************************************************)
(* C4 (amended): when the request never completes, fetchData rejects with  *)
(* a FetchError whose status and data are absent and whose message is the  *)
(* failure's message when the failure is an Error, and 'Unknown error'     *)
(* when it is not (an abort whose reason is not an Error).                  *)
(***************************************************************************)
C4_TransportFailureMessageOrUnknown ==
  (Settled /\ HasFailure) =>
    /\ FetchDataThrewFetchError
    /\ FetchDataError.message =
         IF "message" \in DOMAIN call.response.failure
         THEN call.response.failure.message
         ELSE <<"Unknown error">>
    /\ FetchDataError.status = Undefined
    /\ FetchDataError.data = Undefined
    /\ call.pc = "rejected"

(* The client could not connect, and the caller has the client's message. *)
C4_Witness ==
  /\ Settled
  /\ HasFailure
  /\ call.response.failure = FailedToFetch
  /\ FetchDataError.message = <<"Failed to fetch">>

(***************************************************************************)
(* C5: a non-success response whose body is empty or is no JSON: fetchData *)
(* rejects with exactly one FetchError that carries the status and no      *)
(* data (null); the parse failure neither replaces the HTTP error nor      *)
(* raises a second one.                                                     *)
(***************************************************************************)
C5_UnparseableErrorBody ==
  (/\ Settled
   /\ HasResponse
   /\ ~IsSuccessStatus(call.response.status)
   /\ ~BodyParses) =>
    /\ FetchDataThrewFetchError
    /\ FetchDataError.status = Num(call.response.status)
    /\ FetchDataError.message = <<"HTTP error! status: ", ToString(call.response.status)>>
    /\ FetchDataError.data = Null
    /\ call.settled = call.returned

(* A 500 with an HTML page has been answered. *)
C5_Witness ==
  /\ Settled
  /\ HasResponse
  /\ call.response.status = 500
  /\ call.response.body = BodyHtml
  /\ FetchDataError.data = Null

(***************************************************************************)
(* C6: a non-success response whose body parses as JSON: the data of the   *)
(* FetchError is the parsed body.                                           *)
(***************************************************************************)
C6_ErrorDataIsParsedBody ==
  (/\ Settled
   /\ HasResponse
   /\ ~IsSuccessStatus(call.response.status)
   /\ BodyParses) =>
    /\ FetchDataThrewFetchError
    /\ FetchDataError.data = ParsedBody

(* A 404 with {"message":"not found"} has been answered. *)
C6_Witness ==
  /\ Settled
  /\ HasResponse
  /\ call.response.status = 404
  /\ call.response.body = BodyNotFound
  /\ FetchDataError.data = Obj([message |-> "not found"])

(***************************************************************************)
(* C7: without a schema, the value fetchData returns for a success         *)
(* response is the parsed JSON body, unchanged.                             *)
(***************************************************************************)
C7_NoSchemaReturnsParsedBody ==
  (FetchDataReturned /\ ~SchemaSupplied) =>
    /\ HasResponse
    /\ IsSuccessStatus(call.response.status)
    /\ BodyParses
    /\ call.returned[1].v = ParsedBody

(* A user with a key no schema names has been returned as it was sent. *)
C7_Witness ==
  /\ FetchDataReturned
  /\ ~SchemaSupplied
  /\ call.response.body = BodyUserExtra
  /\ call.returned[1].v = Obj([role |-> "admin"] @@ UserValue)

(***************************************************************************)
(* C8: with a schema that the body of a success response satisfies, the    *)
(* value fetchData returns is the schema's output (the keys the schema     *)
(* does not name removed), not the parsed body.                             *)
(***************************************************************************)
C8_SchemaReturnsValidated ==
  (FetchDataReturned /\ SchemaSupplied) =>
    /\ HasResponse
    /\ IsSuccessStatus(call.response.status)
    /\ BodyParses
    /\ SchemaVerdict.ok
    /\ call.returned[1].v = SchemaVerdict.value

(* The user schema has removed the key it does not name. *)
C8_Witness ==
  /\ FetchDataReturned
  /\ SchemaOf(call.options) = userSchema
  /\ call.response.body = BodyUserExtra
  /\ call.returned[1].v = Obj(UserValue)
  /\ call.returned[1].v # ParsedBody

(***************************************************************************)
(* The failures of a call, read off its arguments and off what the server  *)
(* answered.                                                                *)
(***************************************************************************)
HexDigits ==
  {"0","1","2","3","4","5","6","7","8","9",
   "a","b","c","d","e","f","A","B","C","D","E","F"}

(* The canonical 8-4-4-4-12 form: 36 characters, hyphens at 9, 14, 19 and
   24, hexadecimal digits of either case elsewhere. *)
IsCanonicalUuid(s) ==
  /\ Len(s) = 36
  /\ \A i \in 1..36 :
       IF i \in {9, 14, 19, 24} THEN s[i] = "-" ELSE s[i] \in HexDigits

(* The call is one of the three that check an identifier, and the
   identifier is not a UUID. *)
IdentifierMalformed ==
  \/ call.fn \in {"fetchUserById", "updateUser"} /\ ~IsCanonicalUuid(call.args.userId)
  \/ call.fn = "deletePost" /\ ~IsCanonicalUuid(call.args.postId)

(* updateUser without a name or without an email *)
RequiredFieldMissing ==
  /\ call.fn = "updateUser"
  /\ \/ "name" \notin DOMAIN call.args.data
     \/ "email" \notin DOMAIN call.args.data
     \/ call.args.data.name = ""
     \/ call.args.data.email = ""

(* The data cannot be serialized. *)
DataUnserializable ==
  /\ call.fn \in {"createResource", "updateResource", "patchResource"}
  /\ call.args.data = Circular

(* A failure before any request. *)
PreconditionFailed ==
  IdentifierMalformed \/ RequiredFieldMissing \/ DataUnserializable

(* A failure of the round trip or of the handling of the response. *)
RoundTripFailed ==
  \/ HasFailure
  \/ /\ HasResponse
     /\ \/ ~IsSuccessStatus(call.response.status)
        \/ ~BodyParses
        \/ SchemaSupplied /\ ~SchemaVerdict.ok

(* The caller's promise rejected with exactly one error of this class. *)
CallerGotOneError(cls) ==
  /\ call.pc = "rejected"
  /\ Len(call.settled) = 1
  /\ call.settled[1].kind = "throw"
  /\ call.settled[1].v.cls = cls
  /\ "message" \in DOMAIN call.settled[1].v

(* The class of the error a failure of the call surfaces as. *)
ErrorClassOfFailure ==
  IF EnteredFetchData
  THEN "FetchError"
  ELSE IF call.fn \in {"updateUser", "deletePost"}
       THEN "Error"
       ELSE IF DataUnserializable THEN "TypeError" ELSE "FetchError"

(***************************************************************************)
(* C9 (as stated): every failure of fetchData and of the helpers,          *)
(* precondition failures included, reaches the caller as exactly one       *)
(* FetchError; none is swallowed.                                           *)
(***************************************************************************)
C9_EveryFailureIsOneFetchError ==
  /\ (Settled /\ (PreconditionFailed \/ RoundTripFailed)) => CallerGotOneError("FetchError")
  /\ call.pc = "rejected" => CallerGotOneError("FetchError")

(***************************************************************************)
(* C9 (amended): every failure reaches the caller as exactly one error and *)
(* none is swallowed; the error is a FetchError, except that the           *)
(* precondition failures of updateUser and deletePost are plain Errors and *)
(* that data JSON.stringify refuses leaves createResource, updateResource  *)
(* and patchResource with the serializer's TypeError.                       *)
(***************************************************************************)
C9_EveryFailureIsOneError ==
  /\ (Settled /\ (PreconditionFailed \/ RoundTripFailed)) =>
       CallerGotOneError(ErrorClassOfFailure)
  /\ call.pc = "rejected" =>
       /\ CallerGotOneError(ErrorClassOfFailure)
       /\ PreconditionFailed \/ RoundTripFailed
  /\ call.pc = "resolved" =>
       /\ Len(call.settled) = 1
       /\ call.settled[1].kind = "return"

(* updateUser has been refused a post's worth of data: a plain Error. *)
C9_Witness ==
  /\ call.fn = "updateUser"
  /\ RequiredFieldMissing
  /\ ~IdentifierMalformed
  /\ CallerGotOneError("Error")
  /\ call.settled[1].v.message = <<"Name and email are required">>

(* The message of the identifier check of the function called. *)
FormatErrorMessage ==
  IF call.fn = "deletePost"
  THEN <<"Invalid post ID format">>
  ELSE <<"Invalid user ID format">>

(***************************************************************************)
(* C10: fetchUserById, updateUser and deletePost with an identifier that   *)
(* is not a UUID fail with the format-error message, and no request is     *)
(* issued at any point of the call.                                         *)
(***************************************************************************)
C10_MalformedIdNeverSends ==
  IdentifierMalformed =>
    /\ call.sent = <<>>
    /\ call.pc \in {"import", "rejected"}
    /\ call.pc = "rejected" =>
         /\ Len(call.settled) = 1
         /\ call.settled[1].kind = "throw"
         /\ call.settled[1].v.message = FormatErrorMessage

(* deletePost("abc") has failed without a request. *)
C10_Witness ==
  /\ call.fn = "deletePost"
  /\ call.args.postId = IdAbc
  /\ call.pc = "rejected"
  /\ call.sent = <<>>
  /\ call.settled[1].v.message = <<"Invalid post ID format">>

(***************************************************************************)
(* C11: updateUser without a name or without an email (missing or empty)   *)
(* fails before any request: with 'Name and email are required' when the   *)
(* identifier is a UUID, with the identifier's error when it is not.       *)
(***************************************************************************)
C11_RequiredFieldsCheckedBeforeRequest ==
  RequiredFieldMissing =>
    /\ call.sent = <<>>
    /\ call.pc \in {"import", "rejected"}
    /\ call.pc = "rejected" =>
         /\ Len(call.settled) = 1
         /\ call.settled[1].kind = "throw"
         /\ call.settled[1].v.message =
              IF IsCanonicalUuid(call.args.userId)
              THEN <<"Name and email are required">>
              ELSE <<"Invalid user ID format">>

(* updateUser with neither a UUID nor an email has failed on the identifier. *)
C11_Witness ==
  /\ call.fn = "updateUser"
  /\ call.args.userId = IdAbc
  /\ "email" \notin DOMAIN call.args.data
  /\ call.pc = "rejected"
  /\ call.sent = <<>>
  /\ call.settled[1].v.message = <<"Invalid user ID format">>

(* deleteResource, or deletePost past its identifier check *)
IsDeletion == call.fn \in {"deleteResource", "deletePost"} /\ EnteredFetchData

(* The caller's promise resolved, with no value. *)
ResolvedWithNoValue ==
  /\ call.pc = "resolved"
  /\ call.settled = <<Return(Undefined)>>

(***************************************************************************)
(* C12: deleteResource, and deletePost with a valid identifier, resolves   *)
(* with no value for every response with a success status, whatever its    *)
(* body (a 204 has none), and rejects only when the request failed.        *)
(***************************************************************************)
C12_DeleteResolvesOnEverySuccess ==
  (IsDeletion /\ Settled) =>
    /\ (HasResponse /\ IsSuccessStatus(call.response.status)) => ResolvedWithNoValue
    /\ call.pc = "rejected" =>
         \/ HasFailure
         \/ HasResponse /\ ~IsSuccessStatus(call.response.status)

(* deleteResource has rejected a 204 without a body. *)
C12_Witness ==
  /\ call.fn = "deleteResource"
  /\ HasResponse
  /\ call.response.status = 204
  /\ call.response.body = BodyEmpty
  /\ CallerGotOneError("FetchError")
  /\ call.settled[1].v.message = <<"Unexpected end of JSON input">>

(* The helpers of mutate.ts *)
MutationHelpers ==
  {"createResource", "updateResource", "patchResource", "deleteResource",
   "createPost", "updateUser", "deletePost"}

(* The caller's promise resolved with a value. *)
ResolvedWithValue ==
  /\ call.pc = "resolved"
  /\ Len(call.settled) = 1
  /\ call.settled[1].kind = "return"
  /\ call.settled[1].v # Undefined

(***************************************************************************)
(* C13: a mutation helper that resolves with a value resolves with a       *)
(* response body that a schema has validated; no helper hands its caller   *)
(* a body no schema has seen.                                               *)
(***************************************************************************)
C13_MutationsReturnValidatedBodies ==
  (call.fn \in MutationHelpers /\ ResolvedWithValue) =>
    /\ SchemaSupplied
    /\ BodyParses
    /\ SchemaVerdict.ok
    /\ call.settled[1].v = SchemaVerdict.value

(* createResource has resolved with an error document no schema has seen. *)
C13_Witness ==
  /\ call.fn = "createResource"
  /\ ResolvedWithValue
  /\ ~SchemaSupplied
  /\ call.response.body = BodyNotFound
  /\ call.settled[1].v = ParsedBody

(* The call is past its `await fetch(...)`, or at it. *)
AtOrPastFetch == call.pc \in {"fetch", "errorBody", "body"} \/ call.returned # <<>>

(***************************************************************************)
(* C14: a call of fetchData issues exactly one HTTP request, whatever its  *)
(* outcome: the request is issued when the call starts and no second one   *)
(* follows a failure, a non-success status or a validation failure.        *)
(***************************************************************************)
C14_ExactlyOneRequestPerCall ==
  /\ AtOrPastFetch => Len(call.sent) = 1
  /\ EnteredFetchData => Len(call.sent) = 1 /\ call.sent[1].url = call.url
  /\ (call.fn = "fetchData" /\ call.pc # "idle") => Len(call.sent) = 1

(* fetchData has failed on a 500, having sent one request. *)
C14_Witness ==
  /\ call.fn = "fetchData"
  /\ call.pc = "rejected"
  /\ HasResponse
  /\ call.response.status = 500
  /\ Len(call.sent) = 1

(* The headers the caller of fetchData supplied: a mapping of names to
   values, empty when there are no options or no headers among them. *)
CallerHeaders ==
  IF "headers" \in DOMAIN call.options THEN call.options.headers ELSE EmptyRecord

(* The headers of the request handed to fetch. *)
SentHeaders == call.sent[1].init.headers

(***************************************************************************)
(* C15: the headers of the request are the caller's headers, each with the *)
(* caller's value, and the default Content-Type: application/json, which   *)
(* is there if and only if the caller supplied no header of that key.      *)
(***************************************************************************)
C15_HeadersAreDefaultMergedWithCallers ==
  EnteredFetchData =>
    /\ "headers" \in DOMAIN call.sent[1].init
    /\ DOMAIN SentHeaders = DOMAIN CallerHeaders \cup {"Content-Type"}
    /\ \A key \in DOMAIN CallerHeaders : SentHeaders[key] = CallerHeaders[key]
    /\ "Content-Type" \notin DOMAIN CallerHeaders =>
         SentHeaders["Content-Type"] = "application/json"

(* The caller's Content-Type: text/plain has been sent in place of the
   default. *)
C15_Witness ==
  /\ call.fn = "fetchData"
  /\ EnteredFetchData
  /\ "Content-Type" \in DOMAIN CallerHeaders
  /\ SentHeaders = ("Content-Type" :> "text/plain")

(* The verb of each mutation helper. *)
VerbOf(fn) ==
  CASE fn \in {"createResource", "createPost"} -> "POST"
    [] fn \in {"updateResource", "updateUser"} -> "PUT"
    [] fn = "patchResource" -> "PATCH"
    [] fn \in {"deleteResource", "deletePost"} -> "DELETE"

(* The JSON text of the data the callers pass. *)
SerializedText(data) ==
  CASE data = [title |-> "Hello World", content |-> "This is my first post"] ->
         "{\"title\":\"Hello World\",\"content\":\"This is my first post\"}"
    [] data = [name |-> "Jane Smith", email |-> "jane.smith@example.com"] ->
         "{\"name\":\"Jane Smith\",\"email\":\"jane.smith@example.com\"}"
    [] data = [name |-> "John Doe", email |-> "john@example.com"] ->
         "{\"name\":\"John Doe\",\"email\":\"john@example.com\"}"
    [] data = [email |-> "newemail@example.com"] ->
         "{\"email\":\"newemail@example.com\"}"
    [] OTHER -> "?"

(***************************************************************************)
(* C16: a mutation helper whose preconditions hold makes exactly one       *)
(* request, with its own verb: POST for createResource and createPost,     *)
(* PUT for updateResource and updateUser, PATCH for patchResource, each    *)
(* with the JSON text of its data as body; DELETE, without a body, for     *)
(* deleteResource and deletePost.                                           *)
(***************************************************************************)
C16_HelperSendsItsVerbAndBody ==
  call.fn \in MutationHelpers =>
    /\ EnteredFetchData =>
         /\ Len(call.sent) = 1
         /\ "method" \in DOMAIN call.sent[1].init
         /\ call.sent[1].init.method = VerbOf(call.fn)
         /\ IF VerbOf(call.fn) = "DELETE"
            THEN "body" \notin DOMAIN call.sent[1].init
            ELSE /\ "body" \in DOMAIN call.sent[1].init
                 /\ call.sent[1].init.body = SerializedText(call.args.data)
    /\ (Settled /\ ~PreconditionFailed) => Len(call.sent) = 1

(* patchResource has sent its one field with PATCH. *)
C16_Witness ==
  /\ call.fn = "patchResource"
  /\ Len(call.sent) = 1
  /\ call.sent[1].init.method = "PATCH"
  /\ call.sent[1].init.body = "{\"email\":\"newemail@example.com\"}"
  /\ call.pc = "resolved"

(* The request was aborted: fetch rejected with the abort's reason. *)
Aborted ==
  /\ HasFailure
  /\ \/ "name" \in DOMAIN call.response.failure /\ call.response.failure.name = "AbortError"
     \/ "value" \in DOMAIN call.response.failure

OutcomeOf(options, response) ==
  IF "failure" \in DOMAIN response
  THEN TryCatch(Throw(response.failure))
  ELSE IF IsSuccessStatus(response.status)
       THEN TryCatch(BodyResult(SchemaOf(options), response.body))
       ELSE TryCatch(ErrorBodyResult(response.status, response.body))

(* Call c has its one request, for its own url and options, and once it is
   settled its outcome is the one of its own options and answer. *)
OwnRequestOwnOutcome(c) ==
  /\ calls[c].pc # "idle" =>
       /\ Len(calls[c].sent) = 1
       /\ calls[c].sent[1] = Request(calls[c].url, calls[c].options)
  /\ calls[c].pc \in {"resolved", "rejected"} =>
       /\ "t" \notin DOMAIN calls[c].response
       /\ calls[c].returned = <<OutcomeOf(calls[c].options, calls[c].response)>>
       /\ calls[c].settled = calls[c].returned

(* A step of one call leaves the other calls as they were. *)
OneCallPerStep ==
  \A c \in CallIds, d \in CallIds :
    (c # d /\ calls'[c] # calls[c]) => calls'[d] = calls[d]

(***************************************************************************)
(* C17: with any number of fetchData calls in flight and any interleaving  *)
(* of their answers, every call issues its own request (N calls, N         *)
(* requests), its outcome is the one of its own request and response, and  *)
(* no step of a call changes another call.                                  *)
(***************************************************************************)
C17_CallsAreIndependent ==
  /\ [](\A c \in CallIds : OwnRequestOwnOutcome(c))
  /\ [][OneCallPerStep]_vars

(* Two calls for one url, each with its request: the second has resolved
   while the first still awaits its answer. *)
C17_Witness ==
  /\ calls[1].pc = "fetch"
  /\ calls[2].pc = "resolved"
  /\ calls[1].url = calls[2].url
  /\ calls[1].options = calls[2].options
  /\ Len(calls[1].sent) = 1
  /\ Len(calls[2].sent) = 1

(* Both calls are settled, and were the same call with the same answer. *)
SameCallSameAnswer(c, d) ==
  /\ calls[c].pc \in {"resolved", "rejected"}
  /\ calls[d].pc \in {"resolved", "rejected"}
  /\ calls[c].url = calls[d].url
  /\ calls[c].options = calls[d].options
  /\ calls[c].response = calls[d].response

StartedLight == ~ui.start.html /\ ~ui.start.body

(***************************************************************************)
(* C20: starting from the light theme, after n clicks on ThemeToggleButton *)
(* the class 'theme-dark' is on <html> if and only if n is odd: each click *)
(* flips it, two clicks restore it.                                         *)
(***************************************************************************)
C20_ClicksFlipHtmlClass ==
  StartedLight => (ui.html <=> ui.clicks % 2 = 1)

(* Three clicks from the light theme: the class is on <html>. *)
C20_Witness ==
  /\ StartedLight
  /\ ui.clicks = 3
  /\ ui.html

(* The steps a call may take, as pairs of positions: the request is issued
   on entering "fetch", the status is checked on leaving it, a body is
   parsed on leaving "errorBody" or "body", and validated on leaving "body". *)
OrderedSteps ==
  {<<"idle", "import">>, <<"idle", "fetch">>, <<"idle", "rejected">>,
   <<"import", "fetch">>, <<"import", "rejected">>,
   <<"fetch", "errorBody">>, <<"fetch", "body">>, <<"fetch", "rejected">>,
   <<"errorBody", "rejected">>,
   <<"body", "resolved">>, <<"body", "rejected">>,
   <<"resolved", "idle">>, <<"rejected", "idle">>}

(* The call moves along the order, and its request, once issued, stays. *)
StepInOrder ==
  /\ call'.pc # call.pc => <<call.pc, call'.pc>> \in OrderedSteps
  /\ call.pc \in {"fetch", "errorBody", "body"} => call'.sent = call.sent
  /\ call.pc \in {"errorBody", "body"} => call'.response = call.response

(* Where the call stands agrees with the steps behind it. *)
StepsBehind ==
  /\ call.pc = "fetch" => Len(call.sent) = 1 /\ ~HasResponse /\ ~HasFailure
  /\ call.pc \in {"errorBody", "body"} =>
       /\ Len(call.sent) = 1
       /\ HasResponse
       /\ call.returned = <<>>
       /\ call.pc = "body" <=> IsSuccessStatus(call.response.status)
  /\ (Settled /\ HasFailure) =>
       /\ FetchDataThrewFetchError
       /\ FetchDataError.data = Undefined
  /\ (Settled /\ HasResponse /\ ~IsSuccessStatus(call.response.status)) =>
       /\ FetchDataThrewFetchError
       /\ FetchDataError.message # <<"Response validation failed">>
       /\ "issues" \notin DOMAIN FetchDataError.data
  /\ (Settled /\ HasResponse /\ IsSuccessStatus(call.response.status) /\ ~BodyParses) =>
       /\ FetchDataThrewFetchError
       /\ FetchDataError.message # <<"Response validation failed">>
       /\ FetchDataError.data = Undefined

(***************************************************************************)
(* C24: the steps of fetchData come in the order request, status check,    *)
(* body parse, schema validation, and the first that fails ends the call:  *)
(* the schema is never applied to the body of a non-success response, nor  *)
(* to a body that did not parse, and a body is parsed at most once.        *)
(***************************************************************************)
C24_StepsInOrder == []StepsBehind /\ [][StepInOrder]_vars

(* A 404 whose body the schema would refuse has failed on its status. *)
C24_Witness ==
  /\ call.pc = "rejected"
  /\ HasResponse
  /\ call.response = [status |-> 404, body |-> BodyUserNoEmail]
  /\ SchemaOf(call.options) = userSchema
  /\ FetchDataError.status = Num(404)
  /\ FetchDataError.data = ParsedBody

(* The error `if (!response.ok)` throws for the answer the call received. *)
ErrorThrownForStatus ==
  [cls |-> "FetchError", name |-> "FetchError",
   message |-> <<"HTTP error! status: ", ToString(call.response.status)>>,
   status |-> Num(call.response.status),
   data |-> IF BodyParses THEN ParsedBody ELSE Null]

(***************************************************************************)
(* C25: the FetchError thrown inside fetchData for a non-success status is *)
(* the error the caller receives, message, status and data intact: the     *)
(* catch block does not wrap it as a transport or a validation failure.    *)
(***************************************************************************)
C25_HttpErrorPassesThroughCatch ==
  (Settled /\ HasResponse /\ ~IsSuccessStatus(call.response.status)) =>
    /\ call.returned = <<Throw(ErrorThrownForStatus)>>
    /\ call.settled = <<Throw(ErrorThrownForStatus)>>

(* The caller has the error of a 500, its JSON body as data. *)
C25_Witness ==
  /\ call.pc = "rejected"
  /\ HasResponse
  /\ call.response = [status |-> 500, body |-> BodyNotFound]
  /\ call.settled = <<Throw(ErrorThrownForStatus)>>
  /\ call.settled[1].v.data = ParsedBody

(* The call is inside fetchData, its promise pending. *)
Pending == EnteredFetchData /\ ~Settled

(* A pending call awaits fetch or response.json(), nothing else, and a
   call settles once. *)
WaitsOnlyForClient ==
  /\ Pending =>
       /\ call.pc \in {"fetch", "errorBody", "body"}
       /\ call.returned = <<>>
       /\ call.settled = <<>>
  /\ (EnteredFetchData /\ Settled) =>
       /\ Len(call.returned) = 1
       /\ Len(call.settled) = 1
       /\ call.returned[1].kind \in {"return", "throw"}
       /\ call.returned[1].kind = "return" <=> call.pc = "resolved"

(***************************************************************************)
(* C26: if the HTTP client eventually answers or fails, a call of          *)
(* fetchData eventually settles, exactly once, resolved with a value or    *)
(* rejected with an error; while pending it waits only for the network     *)
(* round trip or for the body to be read.                                   *)
(***************************************************************************)
C26_EveryCallSettlesOnce ==
  /\ []WaitsOnlyForClient
  /\ Pending ~> Settled

(* fetchData has gone through both waits and resolved, once. *)
C26_Witness ==
  /\ call.fn = "fetchData"
  /\ call.pc = "resolved"
  /\ HasResponse
  /\ Len(call.returned) = 1
  /\ Len(call.settled) = 1

(* The request has this option of the caller, unchanged, or the caller gave
   none and the request has none. *)
CarriedUnchanged(key) ==
  IF key \in DOMAIN call.args.options
  THEN /\ key \in DOMAIN call.sent[1].init
       /\ call.sent[1].init[key] = call.args.options[key]
  ELSE key \notin DOMAIN call.sent[1].init

(***************************************************************************)
(* C27: the request fetchData hands to the HTTP client has the caller's    *)
(* url, method and body, unchanged, and never the schema; the options the  *)
(* caller passed are the same after the call as before.                     *)
(***************************************************************************)
C27_RequestCarriesCallersOptions ==
  (call.fn = "fetchData" /\ call.pc # "idle") =>
    /\ Len(call.sent) = 1
    /\ call.sent[1].url = call.args.url
    /\ CarriedUnchanged("method")
    /\ CarriedUnchanged("body")
    /\ "schema" \notin DOMAIN call.sent[1].init
    /\ call.options = call.args.options

(* A POST with a body and a schema has been sent, without the schema. *)
C27_Witness ==
  /\ call.fn = "fetchData"
  /\ Settled
  /\ "schema" \in DOMAIN call.args.options
  /\ "body" \in DOMAIN call.args.options
  /\ call.sent[1].init.method = "POST"
  /\ call.sent[1].init.body = call.args.options.body
  /\ DOMAIN call.sent[1].init = {"method", "body", "headers"}

(* The theme of the document, as the component reads it. *)
DocumentIsDark == ui.html \/ ui.body

(* The component is mounted and has rendered since the last event. *)
EventProcessed == ui.mounted /\ ~ui.stale

(***************************************************************************)
(* C28: after any click on ThemeToggleButton <html> and <body> both carry  *)
(* 'theme-dark' or neither does, whatever they carried before; once the    *)
(* 'themechange' event is processed the button's aria-pressed, aria-label  *)
(* and text are those of the document's theme.                              *)
(***************************************************************************)
C28_ElementsAgreeAndButtonShowsTheme ==
  /\ ui.clicks > 0 => ui.html = ui.body
  /\ EventProcessed =>
       /\ AriaPressed(ui) = DocumentIsDark
       /\ AriaLabel(ui) = "Switch to light mode" <=> DocumentIsDark
       /\ AriaLabel(ui) = "Switch to dark mode" <=> ~DocumentIsDark
       /\ ButtonText(ui) = "Dark" <=> DocumentIsDark

(* Only <body> was dark; one click later neither element is, and the
   button says so. *)
C28_Witness ==
  /\ ~ui.start.html
  /\ ui.start.body
  /\ ui.clicks = 1
  /\ ~ui.html
  /\ ~ui.body
  /\ EventProcessed
  /\ ~AriaPressed(ui)

(* The router's basepath in the mode the application was built in. *)
RouterBase ==
  IF app.mode = "production" THEN <<"modern-react-template", "app">> ELSE <<>>

(* The location is below the router's basepath. *)
BelowRouterBase ==
  /\ Len(app.pathname) >= Len(RouterBase)
  /\ \A i \in 1..Len(RouterBase) : app.pathname[i] = RouterBase[i]

(* The router is on screen: the application's document, no error caught. *)
RouterOnScreen == app.document = "app" /\ ~app.error

(***************************************************************************)
(* C21: the router renders HomePage for the path '/' (the basepath itself) *)
(* and NotFoundPage for every path that is no defined route, whether the   *)
(* catch-all route or no route at all matched it; it never renders         *)
(* neither.                                                                  *)
(***************************************************************************)
C21_HomeAtRootNotFoundElsewhere ==
  RouterOnScreen =>
    /\ app.screen \in {"HomePage", "NotFoundPage"}
    /\ BelowRouterBase =>
         (app.screen = "HomePage" <=> Len(app.pathname) = Len(RouterBase))
    /\ app.match \in {"splat", "none"} => app.screen = "NotFoundPage"
    /\ app.match = "index" => app.screen = "HomePage"

(* The production build shows the 404 page for a path below its basepath. *)
C21_Witness ==
  /\ app.mode = "production"
  /\ app.pathname = <<"modern-react-template", "app", "about">>
  /\ RouterOnScreen
  /\ app.match = "splat"
  /\ app.screen = "NotFoundPage"

(***************************************************************************)
(* C22: following 'Go back home' on the 404 page lands on the route that   *)
(* renders HomePage, in development and in production.                      *)
(***************************************************************************)
C22_GoBackHomeLandsOnHomePage ==
  (app.arrivedBy = "goBackHome" /\ ~app.error) =>
    /\ app.document = "app"
    /\ app.match = "index"
    /\ app.screen = "HomePage"

(* In production the link has led to '/', outside the basepath, and
   HomePage is not on screen. *)
C22_Witness ==
  /\ app.mode = "production"
  /\ app.arrivedBy = "goBackHome"
  /\ app.pathname = <<>>
  /\ ~BelowRouterBase
  /\ ~app.error
  /\ app.screen # "HomePage"

(***************************************************************************)
(* C23: the error fallback is on screen whenever 'Try Again' is activated, *)
(* each activation calls resetErrorBoundary exactly once, and each reset   *)
(* asks for a reload of the page.                                           *)
(***************************************************************************)
C23_TryAgainResetsOnceAndReloads ==
  /\ app.resets = app.tryAgain
  /\ app.reloads = app.resets
  /\ app.reloading => app.reloads > 0
  /\ app.screen = "ErrorFallback" <=> app.error

(* 'Try Again' has been activated twice: two resets, two reloads. *)
C23_Witness ==
  /\ app.tryAgain = 2
  /\ app.resets = 2
  /\ app.reloads = 2
  /\ app.reloading
  /\ ~app.error

(* The click was made on an enabled button that had a handler. *)
EnabledWithHandler(click) == ~click.disabled /\ click.hasOnClick

(***************************************************************************)
(* C29: no click made while Button is disabled reaches the caller's        *)
(* onClick; every click made while it is not disabled calls onClick once,  *)
(* with that click's event.                                                 *)
(***************************************************************************)
C29_DisabledNeverCallsOnClick ==
  /\ \A i \in 1..Len(button.clicks) :
       button.clicks[i].disabled =>
         \A j \in 1..Len(button.calls) : button.calls[j] # button.clicks[i].event
  /\ Len(button.calls) = Len(SelectSeq(button.clicks, EnabledWithHandler))
  /\ \A j \in 1..Len(button.calls) :
       /\ j <= Len(SelectSeq(button.clicks, EnabledWithHandler))
       /\ button.calls[j] = SelectSeq(button.clicks, EnabledWithHandler)[j].event

(* A click on the disabled button, then one on the enabled button: onClick
   was called with the second event only. *)
C29_Witness ==
  /\ Len(button.clicks) = 2
  /\ button.clicks[1].disabled
  /\ EnabledWithHandler(button.clicks[2])
  /\ button.calls = <<2>>
  /\ button.prevented = <<1>>

=============================================================================
